---- MODULE Spec2Model ----
(***************************************************************************)
(* The LS-8 style emulator of ls8/cpu.py: a 256-cell memory, 8 registers,  *)
(* a program counter, a running flag and the fetch-decode-dispatch loop of *)
(* CPU.run with its nine instruction handlers.  Python integers are        *)
(* unbounded and Python lists accept negative indices; both are modelled.  *)
(***************************************************************************)
EXTENDS Integers, Sequences, FiniteSets, TLC

(* ---------------- opcodes and layout (cpu.py 5-25) ---------------- *)
OP_LDI == 130
OP_PRN == 71
OP_ADD == 160
OP_MUL == 162
OP_HLT == 1
OP_PUSH == 69
OP_POP == 70
OP_CALL == 80
OP_RET == 17

SP == 7
RamSize == 256
RegCount == 8
InitSP == 244

(* ---------------- bounds of the exploration ---------------- *)
MaxInstr == 3
MaxIter == 10

VARIABLES prog, ram, reg, pc, running, out, exc, iters, last, prev, hist

vars == <<prog, ram, reg, pc, running, out, exc, iters, last, prev, hist>>

(* ---------------- Python list indexing ---------------- *)
\* lst[i] is defined for -len <= i < len; a negative i counts from the end
ValidIdx(i, n) == i >= -n /\ i < n

PyIdx(i, n) == IF i < 0 THEN i + n ELSE i

ram_read(mar) == ram[PyIdx(mar, RamSize)]

ram_write(mem, mar, mdr) == [mem EXCEPT ![PyIdx(mar, RamSize)] = mdr]

(* ---------------- "{0:08b}".format(ir)[0:2] ---------------- *)
RECURSIVE BinDigits(_)
BinDigits(n) == IF n < 2 THEN <<IF n = 1 THEN "1" ELSE "0">>
                ELSE Append(BinDigits(n \div 2), IF n % 2 = 1 THEN "1" ELSE "0")

ZeroPad(s, w) == IF Len(s) >= w THEN s ELSE [i \in 1..(w - Len(s)) |-> "0"] \o s

\* sign-aware zero padding to a total width of 8 characters
Format08b(n) == IF n >= 0 THEN ZeroPad(BinDigits(n), 8)
                ELSE <<"-">> \o ZeroPad(BinDigits(-n), 7)

num_ops_mut(ir) == SubSeq(Format08b(ir), 2, 3)

num_ops(ir) == SubSeq(Format08b(ir), 1, 2)

(* ---------------- print(self.reg[a]) : decimal rendering ---------------- *)
Digit(d) == CASE d = 0 -> "0" [] d = 1 -> "1" [] d = 2 -> "2" [] d = 3 -> "3"
              [] d = 4 -> "4" [] d = 5 -> "5" [] d = 6 -> "6" [] d = 7 -> "7"
              [] d = 8 -> "8" [] d = 9 -> "9"

RECURSIVE DecDigits(_)
DecDigits(n) == IF n < 10 THEN <<Digit(n)>>
                ELSE Append(DecDigits(n \div 10), Digit(n % 10))

PyStr(n) == IF n >= 0 THEN DecDigits(n) ELSE <<"-">> \o DecDigits(-n)

(* ---------------- the instruction table (cpu.py 27-36) ---------------- *)
branchtable == (OP_LDI :> "ldi") @@ (OP_PRN :> "prn") @@ (OP_ADD :> "add")
            @@ (OP_MUL :> "mul") @@ (OP_HLT :> "hlt") @@ (OP_PUSH :> "push")
            @@ (OP_POP :> "pop") @@ (OP_CALL :> "call") @@ (OP_RET :> "ret")

\* number of parameters of each handler's def, besides self
HandlerArity == [ldi |-> 2, prn |-> 1, add |-> 2, mul |-> 2, hlt |-> 0,
                 push |-> 1, pop |-> 1, call |-> 1, ret |-> 0]

(* ---------------- program images handed to the machine ---------------- *)
LDI(r, v) == <<OP_LDI, r, v>>
PRN(r) == <<OP_PRN, r>>
ADD(a, b) == <<OP_ADD, a, b>>
MUL(a, b) == <<OP_MUL, a, b>>
HLT == <<OP_HLT>>
PUSH(r) == <<OP_PUSH, r>>
POP(r) == <<OP_POP, r>>
CALL(r) == <<OP_CALL, r>>
RET == <<OP_RET>>

RECURSIVE Flatten(_)
Flatten(ss) == IF Len(ss) = 0 THEN <<>> ELSE Head(ss) \o Flatten(Tail(ss))

\* load(): the bytes of the program from address 0, the rest of ram zero
Image(bytes) == [a \in 0..(RamSize - 1) |-> IF a < Len(bytes) THEN bytes[a + 1] ELSE 0]

\* a program file padded with zero lines so that one more byte lands at addr
PlantAt(bytes, addr, byte) == bytes \o [i \in 1..(addr - Len(bytes)) |-> 0] \o <<byte>>

Regs == 0..(RegCount - 1)
Vals == {0, 8, 9, 255}
Bytes == 0..255

GenInstr == {LDI(0, 255), LDI(1, 9), LDI(7, 6), PRN(0), ADD(0, 1), MUL(0, 1), HLT,
             PUSH(0), POP(1), CALL(1), RET, <<192>>}

GenPrograms == {Flatten(p) : p \in UNION {[1..n -> GenInstr] : n \in 1..MaxInstr}}

\* every single-byte program: each table opcode and each byte outside it
BytePrograms == {<<b>> : b \in Bytes}

\* LDI r,v ; PUSH r ; POP r ; HLT, also with the stack pointer moved first
PushPopPrograms ==
    {Flatten(<<LDI(r, v), PUSH(r), POP(r), HLT>>) : r \in Regs, v \in Vals}
    \cup {Flatten(<<LDI(SP, s), PUSH(r), POP(r), HLT>>) : r \in Regs, s \in {0, 5, 6, 7, 255}}

\* LDI r,t ; CALL r ; HLT with a RET planted at the call target t
CallRetPrograms ==
    {PlantAt(Flatten(<<LDI(r, t), CALL(r), HLT>>), t, OP_RET) : r \in Regs, t \in {6, 9, 200}}
    \cup {PlantAt(Flatten(<<LDI(SP, s), LDI(0, 9), CALL(0), HLT>>), 9, OP_RET) : s \in {0, 8, 10, 18}}

\* LDI R0,x ; LDI R1,y ; ADD R0,R1 ; PRN R0 ; HLT
AddProgram(x, y) == Flatten(<<LDI(0, x), LDI(1, y), ADD(0, 1), PRN(0), HLT>>)

AddPrograms == {AddProgram(x, y) : x \in Vals, y \in Vals}

\* LDI r,v ; PRN r ; HLT
LdiPrnPrograms == {Flatten(<<LDI(r, v), PRN(r), HLT>>) : r \in Regs, v \in Vals}

\* a program file of up to 256 lines with HLT in one of the last cells
TailPrograms == {PlantAt(Flatten(<<LDI(0, t), CALL(0)>>), t, OP_HLT) : t \in {253, 254, 255}}

\* LDI a,8 ; LDI b,9 ; MUL a,b ; HLT for registers a, b below the stack pointer
MulPrograms == {Flatten(<<LDI(a, 8), LDI(b, 9), MUL(a, b), HLT>>) : a \in 0..6, b \in 0..6}

\* PUSH R7 at R7 = 0 stores -1; POP R0 and a second PUSH R0 plant it at address t
NegCellPrograms ==
    {Flatten(<<LDI(SP, 0), PUSH(SP), POP(0), LDI(SP, t + 1), PUSH(0), HLT>>) : t \in {12, 13}}

\* two nested subroutines: CALL at 3 to 6, CALL at 9 to 12, RET at 12, RET at 11
NestedCallPrograms ==
    {Flatten(<<LDI(0, 6), CALL(0), HLT, LDI(r, 12), CALL(r), RET, RET>>) : r \in {0, 1}}

\* CALL at 3 with its operand byte at 4, the cell the return address goes to
OperandOverwritePrograms == {Flatten(<<LDI(SP, 5), CALL(r), HLT>>) : r \in {0, SP}}

Programs == GenPrograms \cup BytePrograms \cup PushPopPrograms \cup CallRetPrograms
            \cup AddPrograms \cup LdiPrnPrograms \cup TailPrograms
            \cup MulPrograms \cup NegCellPrograms \cup NestedCallPrograms
            \cup OperandOverwritePrograms

(* ---------------- CPU.__init__ followed by load ---------------- *)
NoSnap == [valid |-> FALSE, ok |-> FALSE, op |-> 0, a |-> 0, b |-> 0, nargs |-> 0,
           pc |-> 0, reg |-> [r \in Regs |-> 0], out |-> <<>>, running |-> TRUE]

InitReg == [r \in Regs |-> IF r = SP THEN InitSP ELSE 0]

\* what the run has done so far: stack-pointer moves, kinds of instruction
\* met, and the return addresses of the subroutine calls still open
NoFrame == [valid |-> FALSE, ret |-> 0, sp |-> 0]

NoHist == [down |-> 0, up |-> 0, r7dest |-> FALSE, xfer |-> FALSE, top11 |-> FALSE,
           calls |-> <<>>, lifo |-> TRUE, frame |-> NoFrame]

Init == /\ prog \in Programs
        /\ ram = Image(prog)
        /\ reg = InitReg
        /\ pc = 0
        /\ running = TRUE
        /\ out = <<>>
        /\ exc = "none"
        /\ iters = 0
        /\ last = NoSnap
        /\ prev = NoSnap
        /\ hist = NoHist

(* ---------------- one loop iteration: fetch and decode (cpu.py 206-213) ---------------- *)
Fetchable_mut == exc = "none" /\ iters < MaxIter

\* while self.running, until an exception has ended the process
Fetchable == exc = "none" /\ running /\ iters < MaxIter

\* the three ram_read calls of the iteration succeed
FetchOK == /\ ValidIdx(pc, RamSize)
           /\ ValidIdx(pc + 1, RamSize)
           /\ ValidIdx(pc + 2, RamSize)

IR == ram_read(pc)

operand_a == ram_read(pc + 1)

operand_b == ram_read(pc + 2)

\* the branch of the if/elif chain taken for an opcode; -1 when none is
ArgCount(ir) == CASE num_ops(ir) = <<"0", "0">> -> 0
                  [] num_ops(ir) = <<"0", "1">> -> 1
                  [] num_ops(ir) = <<"1", "0">> -> 2
                  [] OTHER -> -1

\* the iteration calls handler h with the number of arguments its def takes
Dispatches(h) == /\ Fetchable
                 /\ FetchOK
                 /\ ArgCount(IR) >= 0
                 /\ IR \in DOMAIN branchtable
                 /\ branchtable[IR] = h
                 /\ HandlerArity[h] = ArgCount(IR)

(* ---------------- history of the last two iterations ---------------- *)
Snap(n, okflag) == [valid |-> TRUE, ok |-> okflag, op |-> IR, a |-> operand_a,
                    b |-> operand_b, nargs |-> n, pc |-> pc, reg |-> reg,
                    out |-> out, running |-> running]

\* the handler the fetched opcode is bound to, "none" for a missing key
Handler == IF IR \in DOMAIN branchtable THEN branchtable[IR] ELSE "none"

\* the iteration writes register 7 through its first operand
NamesR7 == /\ Handler \in {"ldi", "add", "mul", "pop"}
           /\ ValidIdx(operand_a, RegCount)
           /\ PyIdx(operand_a, RegCount) = SP

\* the first two characters of the rendering of a non-negative opcode are 11
Top11(ir) == ir >= 0 /\ num_ops(ir) = <<"1", "1">>

HistNext(done) ==
    LET h == Handler
        open == Len(hist.calls) > 0
        meddles == h \in {"push", "pop"} \/ NamesR7
    IN [down |-> hist.down + (IF done /\ h \in {"push", "call"} THEN 1 ELSE 0),
        up |-> hist.up + (IF done /\ h \in {"pop", "ret"} THEN 1 ELSE 0),
        r7dest |-> hist.r7dest \/ NamesR7,
        xfer |-> hist.xfer \/ h \in {"call", "ret"},
        top11 |-> hist.top11 \/ Top11(IR),
        calls |-> IF done /\ h = "call"
                  THEN Append(hist.calls, [valid |-> TRUE, ret |-> pc + 2, sp |-> reg[SP]])
                  ELSE IF done /\ h = "ret" /\ open
                  THEN SubSeq(hist.calls, 1, Len(hist.calls) - 1)
                  ELSE hist.calls,
        lifo |-> IF open THEN hist.lifo /\ ~meddles ELSE TRUE,
        frame |-> IF done /\ h = "ret" /\ open
                  THEN hist.calls[Len(hist.calls)]
                  ELSE NoFrame]

Book(n) == /\ prog' = prog
           /\ iters' = iters + 1
           /\ prev' = last
           /\ last' = Snap(n, exc' = "none")
           /\ hist' = HistNext(exc' = "none")

Commit(m, r, p, u, o, e) == /\ ram' = m
                            /\ reg' = r
                            /\ pc' = p
                            /\ running' = u
                            /\ out' = o
                            /\ exc' = e

(* ---------------- the handlers (cpu.py 94-202) ---------------- *)
\* 1 & i for a Python integer i
BitAnd1(i) == i % 2

\* "i >= 1 & i <= 3" parses as the chained comparison i >= (1 & i) <= 3
incrementPC_mut(i) == [pc |-> pc + i + 1, exc |-> "none"]

incrementPC(i) == IF i >= BitAnd1(i) /\ BitAnd1(i) <= 3
                  THEN [pc |-> pc + i, exc |-> "none"]
                  ELSE [pc |-> pc, exc |-> "Exception"]

alu_mut(op, reg_a, reg_b) ==
    IF ~ValidIdx(reg_a, RegCount) \/ ~ValidIdx(reg_b, RegCount)
    THEN [reg |-> reg, exc |-> "IndexError"]
    ELSE [reg |-> [reg EXCEPT ![PyIdx(reg_a, RegCount)] = reg[PyIdx(reg_b, RegCount)]],
          exc |-> "none"]

\* the result lands in the source register instead of the destination
alu_wrongdest(op, reg_a, reg_b) ==
    IF op \notin {"ADD", "SUB", "MUL", "DIV"}
    THEN [reg |-> reg, exc |-> "Exception"]
    ELSE IF ~ValidIdx(reg_a, RegCount) \/ ~ValidIdx(reg_b, RegCount)
    THEN [reg |-> reg, exc |-> "IndexError"]
    ELSE LET ia == PyIdx(reg_a, RegCount)
             ib == PyIdx(reg_b, RegCount)
         IN CASE op = "ADD" -> [reg |-> [reg EXCEPT ![ib] = reg[ia] + reg[ib]], exc |-> "none"]
              [] op = "SUB" -> [reg |-> [reg EXCEPT ![ib] = reg[ia] - reg[ib]], exc |-> "none"]
              [] op = "MUL" -> [reg |-> [reg EXCEPT ![ib] = reg[ia] * reg[ib]], exc |-> "none"]
              [] op = "DIV" -> IF reg[ib] = 0
                               THEN [reg |-> reg, exc |-> "ZeroDivisionError"]
                               ELSE [reg |-> [reg EXCEPT ![ia] = [float |-> TRUE, num |-> reg[ia], den |-> reg[ib]]],
                                     exc |-> "none"]

alu(op, reg_a, reg_b) ==
    IF op \notin {"ADD", "SUB", "MUL", "DIV"}
    THEN [reg |-> reg, exc |-> "Exception"]
    ELSE IF ~ValidIdx(reg_a, RegCount) \/ ~ValidIdx(reg_b, RegCount)
    THEN [reg |-> reg, exc |-> "IndexError"]
    ELSE LET ia == PyIdx(reg_a, RegCount)
             ib == PyIdx(reg_b, RegCount)
         IN CASE op = "ADD" -> [reg |-> [reg EXCEPT ![ia] = reg[ia] + reg[ib]], exc |-> "none"]
              [] op = "SUB" -> [reg |-> [reg EXCEPT ![ia] = reg[ia] - reg[ib]], exc |-> "none"]
              [] op = "MUL" -> [reg |-> [reg EXCEPT ![ia] = reg[ia] * reg[ib]], exc |-> "none"]
              [] op = "DIV" -> IF reg[ib] = 0
                               THEN [reg |-> reg, exc |-> "ZeroDivisionError"]
                               ELSE [reg |-> [reg EXCEPT ![ia] = [float |-> TRUE, num |-> reg[ia], den |-> reg[ib]]],
                                     exc |-> "none"]

ldi(a, b) ==
    IF ~ValidIdx(a, RegCount)
    THEN Commit(ram, reg, pc, running, out, "IndexError")
    ELSE LET inc == incrementPC(3)
         IN Commit(ram, [reg EXCEPT ![PyIdx(a, RegCount)] = b], inc.pc, running, out, inc.exc)

prn_mut(a) ==
    IF ~ValidIdx(a, RegCount)
    THEN Commit(ram, reg, pc, running, out, "IndexError")
    ELSE LET inc == incrementPC(2)
         IN Commit(ram, reg, inc.pc, running, Append(out, PyStr(a)), inc.exc)

prn(a) ==
    IF ~ValidIdx(a, RegCount)
    THEN Commit(ram, reg, pc, running, out, "IndexError")
    ELSE LET inc == incrementPC(2)
         IN Commit(ram, reg, inc.pc, running, Append(out, PyStr(reg[PyIdx(a, RegCount)])), inc.exc)

\* shared by add and mul: the ALU call, then incrementPC(3) if it did not raise
AluThenAdvance(op, a, b) ==
    LET res == alu(op, a, b)
        inc == incrementPC(3)
    IN IF res.exc # "none"
       THEN Commit(ram, res.reg, pc, running, out, res.exc)
       ELSE Commit(ram, res.reg, inc.pc, running, out, inc.exc)

add(a, b) == AluThenAdvance("ADD", a, b)

mul_mut(a, b) == AluThenAdvance("ADD", a, b)

mul(a, b) == AluThenAdvance("MUL", a, b)

hlt_mut == LET inc == incrementPC(1)
           IN Commit(ram, reg, inc.pc, running, out, inc.exc)

hlt == LET inc == incrementPC(1)
       IN Commit(ram, reg, inc.pc, FALSE, out, inc.exc)

push_mut(register) ==
    LET reg_num == ram[PyIdx(pc + 1, RamSize)]
        top_of_stack_addr == reg[SP]
        inc == incrementPC(2)
    IN IF ~ValidIdx(reg_num, RegCount) \/ ~ValidIdx(top_of_stack_addr, RamSize)
       THEN Commit(ram, reg, pc, running, out, "IndexError")
       ELSE Commit(ram_write(ram, top_of_stack_addr, reg[PyIdx(reg_num, RegCount)]),
                   reg, inc.pc, running, out, inc.exc)

\* the parameter is not used: the register number is read again from ram[pc + 1]
push(register) ==
    LET reg1 == [reg EXCEPT ![SP] = @ - 1]
        reg_num == ram[PyIdx(pc + 1, RamSize)]
        top_of_stack_addr == reg1[SP]
        inc == incrementPC(2)
    IN IF ~ValidIdx(reg_num, RegCount) \/ ~ValidIdx(top_of_stack_addr, RamSize)
       THEN Commit(ram, reg1, pc, running, out, "IndexError")
       ELSE Commit(ram_write(ram, top_of_stack_addr, reg1[PyIdx(reg_num, RegCount)]),
                   reg1, inc.pc, running, out, inc.exc)

pop_mut(register) ==
    LET reg_num == ram[PyIdx(pc + 1, RamSize)]
        top_of_stack_addr == reg[SP]
        inc == incrementPC(2)
    IN IF ~ValidIdx(top_of_stack_addr, RamSize) \/ ~ValidIdx(reg_num, RegCount)
       THEN Commit(ram, reg, pc, running, out, "IndexError")
       ELSE LET value == ram[PyIdx(top_of_stack_addr, RamSize)]
            IN Commit(ram, [reg EXCEPT ![PyIdx(reg_num, RegCount)] = value],
                      inc.pc, running, out, inc.exc)

pop(register) ==
    LET reg_num == ram[PyIdx(pc + 1, RamSize)]
        top_of_stack_addr == reg[SP]
        inc == incrementPC(2)
    IN IF ~ValidIdx(top_of_stack_addr, RamSize) \/ ~ValidIdx(reg_num, RegCount)
       THEN Commit(ram, reg, pc, running, out, "IndexError")
       ELSE LET value == ram[PyIdx(top_of_stack_addr, RamSize)]
                reg1 == [reg EXCEPT ![PyIdx(reg_num, RegCount)] = value]
            IN Commit(ram, [reg1 EXCEPT ![SP] = @ + 1], inc.pc, running, out, inc.exc)

call_mut(register) ==
    LET ret_addr == pc + 1
        reg1 == [reg EXCEPT ![SP] = @ - 1]
    IN IF ~ValidIdx(reg1[SP], RamSize)
       THEN Commit(ram, reg1, pc, running, out, "IndexError")
       ELSE LET ram1 == ram_write(ram, reg1[SP], ret_addr)
                reg_num == ram1[PyIdx(pc + 1, RamSize)]
            IN IF ~ValidIdx(reg_num, RegCount)
               THEN Commit(ram1, reg1, pc, running, out, "IndexError")
               ELSE Commit(ram1, reg1, reg1[PyIdx(reg_num, RegCount)], running, out, "none")

\* the return address is stored before the operand byte is read again
call(register) ==
    LET ret_addr == pc + 2
        reg1 == [reg EXCEPT ![SP] = @ - 1]
    IN IF ~ValidIdx(reg1[SP], RamSize)
       THEN Commit(ram, reg1, pc, running, out, "IndexError")
       ELSE LET ram1 == ram_write(ram, reg1[SP], ret_addr)
                reg_num == ram1[PyIdx(pc + 1, RamSize)]
            IN IF ~ValidIdx(reg_num, RegCount)
               THEN Commit(ram1, reg1, pc, running, out, "IndexError")
               ELSE Commit(ram1, reg1, reg1[PyIdx(reg_num, RegCount)], running, out, "none")

ret_mut ==
    IF ~ValidIdx(reg[SP] + 1, RamSize)
    THEN Commit(ram, reg, pc, running, out, "IndexError")
    ELSE Commit(ram, [reg EXCEPT ![SP] = @ + 1], ram[PyIdx(reg[SP] + 1, RamSize)], running, out, "none")

ret ==
    IF ~ValidIdx(reg[SP], RamSize)
    THEN Commit(ram, reg, pc, running, out, "IndexError")
    ELSE Commit(ram, [reg EXCEPT ![SP] = @ + 1], ram[PyIdx(reg[SP], RamSize)], running, out, "none")

(* ---------------- the steps of CPU.run (cpu.py 204-222) ---------------- *)
Ldi == Dispatches("ldi") /\ ldi(operand_a, operand_b) /\ Book(2)

Prn == Dispatches("prn") /\ prn(operand_a) /\ Book(1)

Add == Dispatches("add") /\ add(operand_a, operand_b) /\ Book(2)

Mul == Dispatches("mul") /\ mul(operand_a, operand_b) /\ Book(2)

Hlt == Dispatches("hlt") /\ hlt /\ Book(0)

Push == Dispatches("push") /\ push(operand_a) /\ Book(1)

Pop == Dispatches("pop") /\ pop(operand_a) /\ Book(1)

Call == Dispatches("call") /\ call(operand_a) /\ Book(1)

Ret == Dispatches("ret") /\ ret /\ Book(0)

\* a ram_read of the fetch is out of range: IndexError ends the run
FetchFail == /\ Fetchable
             /\ ~FetchOK
             /\ Commit(ram, reg, pc, running, out, "IndexError")
             /\ prog' = prog
             /\ iters' = iters + 1
             /\ prev' = last
             /\ last' = NoSnap
             /\ hist' = hist

\* self.branchtable[ir] has no such key, or the handler takes another arity
DispatchFail == /\ Fetchable
                /\ FetchOK
                /\ ArgCount(IR) >= 0
                /\ IF IR \in DOMAIN branchtable
                   THEN HandlerArity[branchtable[IR]] # ArgCount(IR)
                   ELSE TRUE
                /\ Commit(ram, reg, pc, running, out,
                          IF IR \notin DOMAIN branchtable THEN "KeyError" ELSE "TypeError")
                /\ Book(ArgCount(IR))

NoDispatch_mut == /\ Fetchable
                  /\ FetchOK
                  /\ ArgCount(IR) = -1
                  /\ Commit(ram, reg, pc + 1, running, out, "none")
                  /\ Book(-1)

\* no branch of the if/elif chain matches: the iteration does nothing
NoDispatch == /\ Fetchable
              /\ FetchOK
              /\ ArgCount(IR) = -1
              /\ Commit(ram, reg, pc, running, out, "none")
              /\ Book(-1)

Next == \/ Ldi
        \/ Prn
        \/ Add
        \/ Mul
        \/ Hlt
        \/ Push
        \/ Pop
        \/ Call
        \/ Ret
        \/ FetchFail
        \/ DispatchFail
        \/ NoDispatch

Spec == Init /\ [][Next]_vars

(* ---------------- alu and incrementPC called on their own ---------------- *)
\* one direct call of a method on a machine whose registers and PC are given
AluOps == {"ADD", "SUB", "MUL", "DIV"}

UnitRegs == {[r \in Regs |-> r * k + c] : k \in {1, 3}, c \in {0, 2}}

UnitPcs == {0, 7}

UnitIncs == -2..5

UnitInit == /\ prog = HLT
            /\ ram = Image(prog)
            /\ reg \in UnitRegs
            /\ pc \in UnitPcs
            /\ running = TRUE
            /\ out = <<>>
            /\ exc = "none"
            /\ iters = 0
            /\ last = NoSnap
            /\ prev = NoSnap
            /\ hist = NoHist

UnitSnap(name, x, y) == [valid |-> TRUE, ok |-> exc' = "none", op |-> name, a |-> x,
                         b |-> y, nargs |-> 0, pc |-> pc, reg |-> reg, out |-> out,
                         running |-> running]

UnitBook(name, x, y) == /\ prog' = prog
                        /\ iters' = iters + 1
                        /\ prev' = last
                        /\ last' = UnitSnap(name, x, y)
                        /\ hist' = hist

AluCall == \E op \in AluOps, a \in Regs, b \in Regs :
               /\ iters = 0
               /\ LET res == alu(op, a, b)
                  IN Commit(ram, res.reg, pc, running, out, res.exc)
               /\ UnitBook(op, a, b)

IncrementPCCall == \E i \in UnitIncs :
                       /\ iters = 0
                       /\ LET inc == incrementPC(i)
                          IN Commit(ram, reg, inc.pc, running, out, inc.exc)
                       /\ UnitBook("incrementPC", i, 0)

UnitNext == \/ AluCall
            \/ IncrementPCCall

SpecUnit == UnitInit /\ [][UnitNext]_vars

TypeOK == /\ DOMAIN ram = 0..(RamSize - 1)
          /\ DOMAIN reg = Regs
          /\ pc \in Int
          /\ running \in BOOLEAN
          /\ exc \in {"none", "IndexError", "KeyError"}
          /\ iters \in 0..MaxIter

(* ======================= properties ======================= *)
\* the last two iterations both ran their handler to completion
TwoDone(op1, op2) == /\ prev.valid /\ prev.ok /\ prev.op = op1
                     /\ last.valid /\ last.ok /\ last.op = op2

LastDone(op) == last.valid /\ last.ok /\ last.op = op

\* C1: PUSH r directly followed by POP r, r in 0..7, leaves register r and
\* the stack pointer R7 with the values they had before the PUSH.
PushThenPop == TwoDone(OP_PUSH, OP_POP) /\ prev.a \in Regs /\ last.a = prev.a

C1_PushPopIdentity == PushThenPop =>
                          /\ reg[prev.a] = prev.reg[prev.a]
                          /\ reg[SP] = prev.reg[SP]

C1_Witness == PushThenPop /\ prev.a = SP /\ prev.reg[SP] # InitSP

\* C2: a CALL at address p directly followed by RET leaves PC = p + 2 and
\* R7 equal to its value before the CALL.
CallThenRet == TwoDone(OP_CALL, OP_RET)

C2_CallRetReturns == CallThenRet =>
                         /\ pc = prev.pc + 2
                         /\ reg[SP] = prev.reg[SP]

C2_Witness == CallThenRet /\ prev.pc > 0 /\ last.pc # prev.pc + 2

\* C3: a fetched opcode byte with no entry in the instruction table ends the
\* run in an explicit IllegalOpcode failure, whatever its top two bits.
C3_IllegalOpcodeRaised == (last.valid /\ last.op \notin DOMAIN branchtable)
                              => exc = "IllegalOpcode"

\* C4: LDI R0,x ; LDI R1,y ; ADD R0,R1 ; PRN R0 ; HLT halts after its five
\* instructions having emitted exactly x + y, with R0 = x + y and R1 = y.
AddProgramDone(x, y) == prog = AddProgram(x, y) /\ iters >= 5

C4_AddProgram == \A x \in Vals, y \in Vals :
                     /\ (prog = AddProgram(x, y) /\ iters < 5) => (running /\ exc = "none")
                     /\ AddProgramDone(x, y) =>
                            /\ iters = 5
                            /\ ~running
                            /\ exc = "none"
                            /\ out = <<PyStr(x + y)>>
                            /\ reg[0] = x + y
                            /\ reg[1] = y

C4_Witness == AddProgramDone(8, 9) /\ out = <<<<"1", "7">>>> /\ reg[0] = 17 /\ reg[1] = 9

\* C5: LDI r,v directly followed by PRN r, r in 0..7 and v in 0..255, emits
\* the decimal value v and nothing else.
LdiThenPrn == /\ TwoDone(OP_LDI, OP_PRN)
              /\ prev.a \in Regs
              /\ prev.b \in Bytes
              /\ last.a = prev.a

C5_LdiPrnRoundTrip == LdiThenPrn => out = Append(prev.out, PyStr(prev.b))

C5_Witness == LdiThenPrn /\ prev.a = SP /\ prev.b = 255 /\ out = <<<<"2", "5", "5">>>>

\* C6: the program that is a single HLT runs exactly one iteration, then
\* stops with running = false and every register and memory cell unchanged.
HltOnly == prog = HLT

C6_HltOnly == HltOnly =>
                  /\ iters <= 1
                  /\ iters = 0 => (running /\ exc = "none" /\ ENABLED Hlt)
                  /\ iters = 1 => /\ ~running
                                  /\ exc = "none"
                                  /\ reg = InitReg
                                  /\ ram = Image(prog)
                                  /\ ~ENABLED Next

C6_Witness == HltOnly /\ iters = 1 /\ ~running

\* C7: for each opcode of the instruction table the operand count decoded
\* from its top two bits is the documented one, and the handler is invoked
\* with exactly that many operand bytes.
DocOperands == (OP_LDI :> 2) @@ (OP_PRN :> 1) @@ (OP_ADD :> 2) @@ (OP_MUL :> 2)
            @@ (OP_HLT :> 0) @@ (OP_PUSH :> 1) @@ (OP_POP :> 1) @@ (OP_CALL :> 1)
            @@ (OP_RET :> 0)

C7_OperandCount == (last.valid /\ last.op \in DOMAIN DocOperands) =>
                       /\ last.nargs = DocOperands[last.op]
                       /\ exc # "TypeError"

C7_Witness == last.valid /\ last.op = OP_LDI /\ last.nargs = 2 /\ last.ok

\* C8: a completed LDI, PRN, ADD, MUL, HLT, PUSH or POP advances PC by its
\* encoded width; a completed CALL leaves PC at the content of the register
\* its operand byte names and a completed RET at the popped address, with no
\* increment on top.
Width == (OP_LDI :> 3) @@ (OP_PRN :> 2) @@ (OP_ADD :> 3) @@ (OP_MUL :> 3)
      @@ (OP_HLT :> 1) @@ (OP_PUSH :> 2) @@ (OP_POP :> 2)

C8_PcAdvance ==
    (last.valid /\ last.ok) =>
        /\ last.op \in DOMAIN Width => pc = last.pc + Width[last.op]
        /\ last.op = OP_CALL =>
               pc = reg[PyIdx(ram[PyIdx(last.pc + 1, RamSize)], RegCount)]
        /\ last.op = OP_RET => pc = ram[PyIdx(last.reg[SP], RamSize)]

C8_Witness == LastDone(OP_CALL) /\ pc # last.pc + 2 /\ prev.valid /\ prev.op = OP_LDI

\* C9: running is true initially, becomes false only in a step that executes
\* HLT, and once it is false PC, registers and memory never change again.
HltStep == Fetchable /\ FetchOK /\ IR = OP_HLT

C9_HaltTerminal ==
    /\ running = TRUE
    /\ [][/\ (running /\ ~running') => HltStep
          /\ ~running => (running' = running /\ pc' = pc /\ reg' = reg /\ ram' = ram)]_vars

C9_Witness == ~running /\ LastDone(OP_HLT) /\ iters > 1

\* C10: every register holds an integer in 0..255 in every reachable state.
C10_RegistersAreBytes == \A r \in Regs : reg[r] \in Bytes

\* C11: memory always has exactly 256 cells and every cell holds an integer
\* in 0..255, whatever PUSH and CALL store.
C11_MemoryCellsAreBytes == /\ DOMAIN ram = 0..(RamSize - 1)
                           /\ \A c \in 0..(RamSize - 1) : ram[c] \in Bytes

\* C12: a completed CALL at p whose fetched operand byte is r has lowered R7
\* by one, stored p + 2 at the new R7 address and set PC to the content of
\* register r (as it was before or after the decrement of R7).
C12_CallJumpsToOperandRegister ==
    (LastDone(OP_CALL) /\ last.a \in Regs) =>
        /\ reg[SP] = last.reg[SP] - 1
        /\ ram[PyIdx(reg[SP], RamSize)] = last.pc + 2
        /\ pc \in {reg[last.a], last.reg[last.a]}

\* C13: MUL a,b with distinct a, b in 0..6 multiplies register a by register
\* b, leaves every other register, memory and the running flag as they were
\* and advances PC by 3.
MulStep == /\ Fetchable
           /\ FetchOK
           /\ IR = OP_MUL
           /\ operand_a \in 0..6
           /\ operand_b \in 0..6
           /\ operand_a # operand_b

C13_MulFrame ==
    [][MulStep => /\ reg' = [reg EXCEPT ![operand_a] = reg[operand_a] * reg[operand_b]]
                  /\ ram' = ram
                  /\ running' = running
                  /\ pc' = pc + 3]_vars

C13_Witness == /\ LastDone(OP_MUL)
               /\ last.a \in 0..6 /\ last.b \in 0..6 /\ last.a # last.b
               /\ last.reg[last.a] = 8 /\ last.reg[last.b] = 9
               /\ reg[last.a] = 72

\* C14: the unconditional reads at PC + 1 and PC + 2 never make an iteration
\* fail while PC is an address 0..255.
FetchFailed == iters > 0 /\ ~last.valid /\ exc = "IndexError"

C14_OverReadNeverFails == FetchFailed => pc \notin 0..(RamSize - 1)

\* C15: fetching an opcode byte with top two bits 11 dispatches nothing,
\* raises nothing and changes neither PC, registers, memory nor running.
Top11Step == Fetchable /\ FetchOK /\ IR \in 192..255

C15_Top11Ignored ==
    [][Top11Step => /\ pc' = pc
                    /\ reg' = reg
                    /\ ram' = ram
                    /\ running' = running
                    /\ out' = out
                    /\ exc' = "none"]_vars

C15_Witness == /\ TwoDone(192, 192)
               /\ prev.pc = last.pc
               /\ pc = last.pc
               /\ last.nargs = -1

\* C16: as long as no instruction has named register 7 as its destination,
\* R7 = 0xF4 - (completed PUSH and CALL steps) + (completed POP and RET
\* steps): each completed PUSH or CALL lowers R7 by one, each completed POP
\* or RET raises it by one and any other completed instruction leaves it.
SpDelta(op) == IF op \in {OP_PUSH, OP_CALL} THEN -1
               ELSE IF op \in {OP_POP, OP_RET} THEN 1 ELSE 0

C16_StackPointerCount ==
    (exc = "none" /\ ~hist.r7dest) =>
        /\ reg[SP] = InitSP - hist.down + hist.up
        /\ last.valid => reg[SP] = last.reg[SP] + SpDelta(last.op)

C16_Witness == /\ exc = "none" /\ ~hist.r7dest
               /\ hist.down = 2 /\ hist.up = 1
               /\ reg[SP] = InitSP - 1

\* C18: in a run that has executed no CALL or RET and fetched no opcode with
\* top two bits 11, every completed iteration leaves PC strictly greater than
\* it was, so the loop cannot go on forever.
C18_PcStrictlyIncreases ==
    (last.valid /\ last.ok /\ ~hist.xfer /\ ~hist.top11) => pc > last.pc

\* C19: with no other write to R7 or to the stack in between, a completed RET
\* sets PC to the return address (CALL address + 2) pushed by the latest CALL
\* not yet returned from, and R7 to its value before that CALL; n nested
\* CALLs are so undone by n RETs in last-in-first-out order.
RetOfOpenCall == LastDone(OP_RET) /\ hist.frame.valid /\ hist.lifo

C19_CallRetLifo == RetOfOpenCall =>
                       /\ pc = hist.frame.ret
                       /\ reg[SP] = hist.frame.sp

C19_Witness == /\ RetOfOpenCall
               /\ TwoDone(OP_RET, OP_RET)
               /\ Len(hist.calls) = 0
               /\ hist.down = 2 /\ hist.up = 2
               /\ pc = 5 /\ last.pc = 11 /\ prev.pc = 12

\* C17: alu(op, a, b) with op in ADD, SUB, MUL, DIV changes register a at
\* most: PC, the running flag, the output, every memory cell and every other
\* register are as they were before the call.
AluCalled == last.valid /\ last.op \in AluOps

C17_AluFrame == AluCalled =>
                    /\ pc = last.pc
                    /\ running = last.running
                    /\ out = last.out
                    /\ ram = Image(prog)
                    /\ \A r \in Regs \ {last.a} : reg[r] = last.reg[r]

C17_Witness == /\ AluCalled /\ last.ok
               /\ last.op = "SUB" /\ last.a = 2 /\ last.b = 5
               /\ reg[2] = last.reg[2] - last.reg[5]
               /\ reg[2] # last.reg[2]

\* C20: incrementPC(i) adds i to PC when 1 <= i <= 3 and for every other
\* integer i raises "Unsupported 'i' value" and leaves PC unchanged.
C20_IncrementPCRange ==
    (last.valid /\ last.op = "incrementPC") =>
        IF last.a \in 1..3
        THEN pc = last.pc + last.a /\ exc = "none"
        ELSE pc = last.pc /\ exc = "Exception"

====
